---- MODULE Spec2Model ----
(***************************************************************************)
(* Model of src/converters.rs of sentry-tracing: the FieldVisitor that     *)
(* folds the fields of one tracing event into display_values, json_values  *)
(* and log_target, and the two assemblers breadcrumb_from_event and        *)
(* convert_tracing_event built on it.                                      *)
(*                                                                         *)
(* Strings are sequences of one-character strings; the byte 0x1b is the    *)
(* element ESC.  Option<T> is a sequence of length 0 (None) or 1 (Some).   *)
(* The activations of the two assemblers form a call stack: the side       *)
(* diagnostic of record_json_value (tracing::error!) is dispatched         *)
(* synchronously and may itself be converted while the outer callback is   *)
(* still between record_json_value and record_message.                     *)
(***************************************************************************)
EXTENDS Integers, Sequences, FiniteSets, TLC

VARIABLES stack, out

vars == <<stack, out>>

\* ---------------------------------------------------------------- bounds
MaxFields == 2
MaxDepth == 2

\* ---------------------------------------------------------------- strings
ESC == "ESC"
None == <<>>
Some(x) == <<x>>

LogTargetName == <<"l", "o", "g", ".", "t", "a", "r", "g", "e", "t">>
NameA == <<"a">>
ErrorName == <<"e", "r", "r", "o", "r">>
Target == <<"s", "v", "c">>
CrateTarget == <<"s", "t">>
LogEventSuffix == <<"]", " ", "l", "o", "g", " ", "e", "v", "e", "n", "t">>
TracingEventSuffix ==
    <<"]", " ", "t", "r", "a", "c", "i", "n", "g", " ", "e", "v", "e", "n", "t">>
DiagPrefix == <<"s", "e", "r", ":">>

RECURSIVE Join(_, _)
Join(strs, sep) ==
    IF strs = <<>> THEN <<>>
    ELSE IF Len(strs) = 1 THEN strs[1]
    ELSE strs[1] \o sep \o Join(Tail(strs), sep)

Digit(d) == <<"0", "1", "2", "3", "4", "5", "6", "7", "8", "9">>[d + 1]

RECURSIVE FormatNat(_)
FormatNat(n) ==
    IF n < 10 THEN <<Digit(n)>> ELSE FormatNat(n \div 10) \o <<Digit(n % 10)>>

FormatInt(n) == IF n < 0 THEN <<"-">> \o FormatNat(0 - n) ELSE FormatNat(n)

FormatBool(b) ==
    IF b THEN <<"t", "r", "u", "e">> ELSE <<"f", "a", "l", "s", "e">>

\* ------------------------------------------------------------ JSON values
JNum(n) == [t |-> "num", n |-> n, b |-> FALSE, s |-> <<>>]
JBool(b) == [t |-> "bool", n |-> 0, b |-> b, s |-> <<>>]
JStr(s) == [t |-> "str", n |-> 0, b |-> FALSE, s |-> s]
JNull == [t |-> "null", n |-> 0, b |-> FALSE, s |-> <<>>]

EmptyMap == [k \in {} |-> JNull]

\* Variant of Insert that keeps an existing entry.
Insert_keep_existing(map, key, value) ==
    [k \in DOMAIN map \cup {key} |-> IF k \in DOMAIN map THEN map[k] ELSE value]

Insert(map, key, value) ==
    [k \in DOMAIN map \cup {key} |-> IF k = key THEN value ELSE map[k]]

\* ---------------------------------------------------------------- levels
TracingLevels == {"ERROR", "WARN", "INFO", "DEBUG", "TRACE"}

\* Variant of convert_tracing_level that keeps TRACE apart from DEBUG.
convert_tracing_level_trace_as_info(level) ==
    CASE level = "ERROR" -> "Error"
      [] level = "WARN" -> "Warning"
      [] level \in {"INFO", "TRACE"} -> "Info"
      [] level = "DEBUG" -> "Debug"

convert_tracing_level(level) ==
    CASE level = "ERROR" -> "Error"
      [] level = "WARN" -> "Warning"
      [] level = "INFO" -> "Info"
      [] level \in {"DEBUG", "TRACE"} -> "Debug"

\* ---------------------------------------------------------- ansi stripper
CsiParamBytes == {"0", "1", "2", "3", "4", "5", "6", "7", "8", "9", ";"}

\* strip_ansi_escapes::strip: the escape-sequence parser keeps the bytes
\* printed in its ground state and drops ESC, the byte after it, and for
\* ESC [ every parameter byte up to and including the final byte.
RECURSIVE StripFrom(_, _, _)
StripFrom(s, i, st) ==
    IF i > Len(s) THEN <<>>
    ELSE LET c == s[i] IN
         CASE st = "ground" ->
                IF c = ESC THEN StripFrom(s, i + 1, "escape")
                ELSE <<c>> \o StripFrom(s, i + 1, "ground")
           [] st = "escape" ->
                IF c = "[" THEN StripFrom(s, i + 1, "csi")
                ELSE IF c = ESC THEN StripFrom(s, i + 1, "escape")
                ELSE StripFrom(s, i + 1, "ground")
           [] st = "csi" ->
                IF c \in CsiParamBytes THEN StripFrom(s, i + 1, "csi")
                ELSE IF c = ESC THEN StripFrom(s, i + 1, "escape")
                ELSE StripFrom(s, i + 1, "ground")

Strip(s) == StripFrom(s, 1, "ground")

\* The field's stripOk says whether strip() and from_utf8() both return Ok
\* for this value; otherwise the original string is returned.
strip_ansi_codes_from_string(string, stripOk) ==
    IF stripOk THEN Strip(string) ELSE string

\* ----------------------------------------------------------------- inputs
Kinds == {"i64", "u64", "bool", "str", "error", "debug"}
StringKinds == {"str", "error", "debug"}

\* A field of an event: its name, the record_* callback the framework drives
\* for it (kind), its value (num, flag or text according to kind; for error
\* and debug values text is the value's {:?} formatting), and the outcome
\* of the two fallible library calls on that value.
F(name, kind, num, flag, text, encOk, stripOk) ==
    [name |-> name, kind |-> kind, num |-> num, flag |-> flag, text |-> text,
     encOk |-> encOk, stripOk |-> stripOk]

Plain == <<"d", "b">>
Coloured == <<ESC, "[", "3", "1", "m", "d", "b">>
Mixed == <<"x", ESC, "[", "m", "y">>

Fields ==
    { F(NameA, "i64", 0 - 1, FALSE, <<>>, TRUE, TRUE),
      F(LogTargetName, "u64", 7, FALSE, <<>>, FALSE, TRUE),
      F(NameA, "bool", 0, TRUE, <<>>, TRUE, TRUE),
      F(LogTargetName, "str", 0, FALSE, Plain, TRUE, TRUE),
      F(LogTargetName, "str", 0, FALSE, Mixed, FALSE, TRUE),
      F(NameA, "error", 0, FALSE, Coloured, TRUE, TRUE),
      F(NameA, "debug", 0, FALSE, Coloured, FALSE, FALSE) }

BoundedSeq(S, n) == UNION {[1..k -> S] : k \in 0..n}

Events ==
    [level : TracingLevels, target : {Target}, module_path : {Some(Target)},
     fields : BoundedSeq(Fields, MaxFields)]

Integrations == [strip_ansi_escapes : BOOLEAN, attach_stacktraces : BOOLEAN]

\* What current_stacktrace() returns: nothing, or a stack trace.
Captures == {None, Some("frames")}

\* The event emitted by tracing::error!(error = ?error) in record_json_value
\* for a field whose encoding failed: one debug field named error whose
\* formatting names the field.
DiagEvent(name, encOk) ==
    [level |-> "ERROR", target |-> CrateTarget, module_path |-> Some(CrateTarget),
     fields |-> <<F(ErrorName, "debug", 0, FALSE, DiagPrefix \o name, encOk, TRUE)>>]

\* ---------------------------------------------------------------- visitor
FieldVisitorConfigFrom(integration) ==
    [strip_ansi_escapes |-> integration.strip_ansi_escapes]

FieldVisitorResultDefault ==
    [display_values |-> <<>>, json_values |-> EmptyMap, log_target |-> None]

\* value is the callback's local string handed to record_message;
\* strip_calls counts the calls of strip_ansi_codes_from_string.
NewVisitor(config) ==
    [config |-> config, result |-> FieldVisitorResultDefault,
     value |-> <<>>, strip_calls |-> 0]

\* Variant of message that joins with a space.
message_space_joined(result) == Join(result.display_values, <<" ">>)

message(result) == Join(result.display_values, <<"\n">>)

\* Variant of record_json_value that records null for a failed encoding.
record_json_value_null_on_error(v, field, json_value) ==
    [v EXCEPT !.result.json_values =
        Insert(@, field.name, IF field.encOk THEN json_value ELSE JNull)]

record_json_value(v, field, json_value) ==
    IF field.encOk
    THEN [v EXCEPT !.result.json_values = Insert(@, field.name, json_value)]
    ELSE v

\* Variant of record_message that drops an entry already recorded.
record_message_skip_duplicates(v, field, value) ==
    LET entry == field.name \o <<"=">> \o value IN
    IF \E i \in 1..Len(v.result.display_values) : v.result.display_values[i] = entry
    THEN [v EXCEPT !.value = <<>>]
    ELSE [v EXCEPT !.result.display_values = Append(@, entry), !.value = <<>>]

record_message(v, field, value) ==
    [v EXCEPT !.result.display_values = Append(@, field.name \o <<"=">> \o value),
              !.value = <<>>]

\* The record_* operators model each callback up to and including its call
\* of record_json_value; the callback ends with record_message(v.value).
record_i64(v, field) ==
    [record_json_value(v, field, JNum(field.num)) EXCEPT !.value = FormatInt(field.num)]

record_u64(v, field) ==
    [record_json_value(v, field, JNum(field.num)) EXCEPT !.value = FormatNat(field.num)]

record_bool(v, field) ==
    [record_json_value(v, field, JBool(field.flag)) EXCEPT !.value = FormatBool(field.flag)]

StripIfConfigured(v, field, s) ==
    IF v.config.strip_ansi_escapes
    THEN [[v EXCEPT !.strip_calls = @ + 1]
             EXCEPT !.value = strip_ansi_codes_from_string(s, field.stripOk)]
    ELSE [v EXCEPT !.value = s]

\* Variant of record_str that keeps the first log.target it has seen.
record_str_first_target_kept(v, field) ==
    LET v1 == StripIfConfigured(v, field, field.text)
        v2 == IF field.name = LogTargetName /\ v1.result.log_target = None
              THEN [v1 EXCEPT !.result.log_target = Some(v1.value)]
              ELSE v1
    IN record_json_value(v2, field, JStr(v2.value))

record_str(v, field) ==
    LET v1 == StripIfConfigured(v, field, field.text)
        v2 == IF field.name = LogTargetName
              THEN [v1 EXCEPT !.result.log_target = Some(v1.value)]
              ELSE v1
    IN record_json_value(v2, field, JStr(v2.value))

\* Variant of record_error that never strips the formatted error.
record_error_unstripped(v, field) ==
    LET v1 == [v EXCEPT !.value = field.text]
    IN record_json_value(v1, field, JStr(v1.value))

record_error(v, field) ==
    LET v1 == StripIfConfigured(v, field, field.text)
    IN record_json_value(v1, field, JStr(v1.value))

record_debug(v, field) ==
    LET v1 == StripIfConfigured(v, field, field.text)
    IN record_json_value(v1, field, JStr(v1.value))

\* ------------------------------------------------------------- assemblers
\* Variant of visit_event whose visitor starts from the result of the
\* visitation it is nested in.
visit_event_inherits(fn, event, integration) ==
    [fn |-> fn, event |-> event, integration |-> integration,
     visitor |-> IF stack = <<>>
                 THEN NewVisitor(FieldVisitorConfigFrom(integration))
                 ELSE [NewVisitor(FieldVisitorConfigFrom(integration))
                          EXCEPT !.result = stack[Len(stack)].visitor.result],
     idx |-> 0, pc |-> "record"]

visit_event(fn, event, integration) ==
    [fn |-> fn, event |-> event, integration |-> integration,
     visitor |-> NewVisitor(FieldVisitorConfigFrom(integration)),
     idx |-> 0, pc |-> "record"]

Breadcrumb(event, result) ==
    [ty |-> "log",
     level |-> convert_tracing_level(event.level),
     category |-> Some(event.target),
     message |-> Some(message(result)),
     data |-> result.json_values]

\* Variant of ExceptionType without the log.target branch.
ExceptionType_ignores_log_target(event, result) ==
    <<"[">> \o event.target \o TracingEventSuffix

ExceptionType(event, result) ==
    IF result.log_target # None
    THEN <<"[">> \o result.log_target[1] \o LogEventSuffix
    ELSE <<"[">> \o event.target \o TracingEventSuffix

\* Variant of AttachStacktrace that captures whatever the configuration.
AttachStacktrace_always(integration, capture) ==
    [stacktrace |-> capture, consulted |-> TRUE]

\* capture is what current_stacktrace() returns if it is called; consulted
\* records whether it was called.
AttachStacktrace(integration, capture) ==
    IF integration.attach_stacktraces
    THEN [stacktrace |-> capture, consulted |-> TRUE]
    ELSE [stacktrace |-> None, consulted |-> FALSE]

SentryEvent(event, result, integration, capture) ==
    [logger |-> "sentry-tracing",
     level |-> convert_tracing_level(event.level),
     exception |-> << [ty |-> ExceptionType(event, result),
                       value |-> Some(message(result)),
                       stacktrace |-> AttachStacktrace(integration, capture).stacktrace,
                       module |-> event.module_path] >>]

\* ------------------------------------------------------------------ state
Top == stack[Len(stack)]
Running == stack # <<>> /\ Top.pc = "record"
NextField == Top.event.fields[Top.idx + 1]
HasNext(kind) ==
    /\ Running
    /\ Top.idx < Len(Top.event.fields)
    /\ NextField.kind = kind

SetTop(frame) == [stack EXCEPT ![Len(stack)] = frame]

Init ==
    /\ stack = <<>>
    /\ out = None

\* Entry of an assembler: for a caller's event when nothing is running, or
\* for the side diagnostic while the callback that emitted it is suspended.
\* The subscriber that receives the side diagnostic converts it with the
\* integration it holds, the one of the conversion that emitted it.
Enter(fn) ==
    \/ /\ stack = <<>>
       /\ out = None
       /\ \E event \in Events, integration \in Integrations :
            stack' = <<visit_event(fn, event, integration)>>
       /\ out' = None
    \/ /\ stack # <<>>
       /\ Top.pc = "diag"
       /\ Len(stack) < MaxDepth
       /\ \E encOk \in BOOLEAN :
            stack' = Append(stack, visit_event(fn, DiagEvent(NextField.name, encOk),
                                               Top.integration))
       /\ out' = None

Call_breadcrumb_from_event == Enter("breadcrumb_from_event")

Call_convert_tracing_event == Enter("convert_tracing_event")

\* One record_* callback: runs to its end when the encoding succeeds, and
\* stops inside record_json_value's Err arm when it fails.
Callback(v1) ==
    /\ stack' = SetTop(IF NextField.encOk
                       THEN [Top EXCEPT !.visitor = record_message(v1, NextField, v1.value),
                                        !.idx = @ + 1]
                       ELSE [Top EXCEPT !.visitor = v1, !.pc = "diag"])
    /\ out' = None

Visit_record_i64 == HasNext("i64") /\ Callback(record_i64(Top.visitor, NextField))

Visit_record_u64 == HasNext("u64") /\ Callback(record_u64(Top.visitor, NextField))

Visit_record_bool == HasNext("bool") /\ Callback(record_bool(Top.visitor, NextField))

Visit_record_str == HasNext("str") /\ Callback(record_str(Top.visitor, NextField))

Visit_record_error == HasNext("error") /\ Callback(record_error(Top.visitor, NextField))

Visit_record_debug == HasNext("debug") /\ Callback(record_debug(Top.visitor, NextField))

\* tracing::error! returns and the suspended callback calls record_message.
DiagnosticReturns ==
    /\ stack # <<>>
    /\ Top.pc = "diag"
    /\ stack' = SetTop([Top EXCEPT
                          !.visitor = record_message(Top.visitor, NextField, Top.visitor.value),
                          !.idx = @ + 1,
                          !.pc = "record"])
    /\ out' = None

Visited(fn) ==
    /\ Running
    /\ Top.fn = fn
    /\ Top.idx = Len(Top.event.fields)

Return_breadcrumb_from_event ==
    /\ Visited("breadcrumb_from_event")
    /\ out' = Some([fn |-> Top.fn, event |-> Top.event, integration |-> Top.integration,
                    capture |-> None, consulted |-> FALSE,
                    breadcrumb |-> Some(Breadcrumb(Top.event, Top.visitor.result)),
                    sentry_event |-> None])
    /\ stack' = SubSeq(stack, 1, Len(stack) - 1)

Return_convert_tracing_event ==
    /\ Visited("convert_tracing_event")
    /\ \E capture \in Captures :
         out' = Some([fn |-> Top.fn, event |-> Top.event, integration |-> Top.integration,
                      capture |-> capture,
                      consulted |-> AttachStacktrace(Top.integration, capture).consulted,
                      breadcrumb |-> None,
                      sentry_event |-> Some(SentryEvent(Top.event, Top.visitor.result,
                                                        Top.integration, capture))])
    /\ stack' = SubSeq(stack, 1, Len(stack) - 1)

\* The caller takes the returned record.
RecordTaken ==
    /\ out # None
    /\ stack = <<>>
    /\ out' = None
    /\ UNCHANGED stack

Next ==
    \/ Call_breadcrumb_from_event
    \/ Call_convert_tracing_event
    \/ Visit_record_i64
    \/ Visit_record_u64
    \/ Visit_record_bool
    \/ Visit_record_str
    \/ Visit_record_error
    \/ Visit_record_debug
    \/ DiagnosticReturns
    \/ Return_breadcrumb_from_event
    \/ Return_convert_tracing_event
    \/ RecordTaken

Spec == Init /\ [][Next]_vars

\* ------------------------------------------------- reference definitions
\* event.record(&mut visitor): one callback per field, in event order.
Dispatch(v, field) ==
    LET v1 == CASE field.kind = "i64" -> record_i64(v, field)
                [] field.kind = "u64" -> record_u64(v, field)
                [] field.kind = "bool" -> record_bool(v, field)
                [] field.kind = "str" -> record_str(v, field)
                [] field.kind = "error" -> record_error(v, field)
                [] field.kind = "debug" -> record_debug(v, field)
    IN record_message(v1, field, v1.value)

RECURSIVE VisitFrom(_, _, _)
VisitFrom(v, fields, i) ==
    IF i > Len(fields) THEN v ELSE VisitFrom(Dispatch(v, fields[i]), fields, i + 1)

\* The result of a visitation of fields by a visitor of its own.
VisitAlone(fields, integration) ==
    VisitFrom(NewVisitor(FieldVisitorConfigFrom(integration)), fields, 1).result

RemoveAt(seq, i) == SubSeq(seq, 1, i - 1) \o SubSeq(seq, i + 1, Len(seq))

Max(S) == CHOOSE m \in S : \A n \in S : n <= m

HasCsi(s) == \E i \in 1..(Len(s) - 1) : s[i] = ESC /\ s[i + 1] = "["

\* The rendered value of a field as the field table prescribes it.
Rendered(field, integration) ==
    CASE field.kind = "i64" -> FormatInt(field.num)
      [] field.kind = "u64" -> FormatNat(field.num)
      [] field.kind = "bool" -> FormatBool(field.flag)
      [] field.kind \in StringKinds ->
            IF ~integration.strip_ansi_escapes THEN field.text
            ELSE IF field.stripOk THEN Strip(field.text)
            ELSE field.text

JsonOf(field, integration) ==
    CASE field.kind \in {"i64", "u64"} -> JNum(field.num)
      [] field.kind = "bool" -> JBool(field.flag)
      [] field.kind \in StringKinds -> JStr(Rendered(field, integration))

Entry(field, integration) == field.name \o <<"=">> \o Rendered(field, integration)

Frames == {stack[d] : d \in 1..Len(stack)}

\* The fields of a frame whose callback has returned.
Done(f) == SubSeq(f.event.fields, 1, f.idx)

\* The fields of a frame whose callback has been entered.
Entered(f) == SubSeq(f.event.fields, 1, IF f.pc = "diag" THEN f.idx + 1 ELSE f.idx)

Complete(f) == f.pc = "record" /\ f.idx = Len(f.event.fields)

Occurrences(fields, name) == {i \in 1..Len(fields) : fields[i].name = name}

Encoded(fields, name) == {i \in Occurrences(fields, name) : fields[i].encOk}

\* ------------------------------------------------------------------ claims

\* C1: at every point of a visitation, and so when visit_event has been
\* driven over all the fields, display_values has exactly one entry per
\* visited field, in visitation order; entry i is "<name>=<rendered value>"
\* of field i, duplicates kept, whatever the kind of the field and whether
\* or not its JSON encoding succeeded.
C1_DisplayPerField ==
    \A f \in Frames :
        LET dv == f.visitor.result.display_values IN
        /\ Len(dv) = f.idx
        /\ \A i \in 1..f.idx : dv[i] = Entry(f.event.fields[i], f.integration)

C1_Witness ==
    \E f \in Frames :
        /\ Complete(f)
        /\ Len(f.event.fields) >= 2
        /\ ~f.event.fields[1].encOk
        /\ f.event.fields[2] = f.event.fields[1]
        /\ Len(f.visitor.result.display_values) = 2

\* C2: a failed JSON encoding of a visited field does not stop the
\* visitation; json_values is what it would be had that field not been on
\* the event (its entry is absent), display_values still has the field's
\* entry, and all other fields are recorded as if the encoding had
\* succeeded.
C2_EncodingFailureTolerated ==
    \A f \in Frames :
        \A i \in 1..Len(Entered(f)) :
            ~f.event.fields[i].encOk =>
                LET without == VisitAlone(RemoveAt(Entered(f), i), f.integration)
                    healed == VisitAlone([Done(f) EXCEPT ![i].encOk = TRUE], f.integration)
                IN /\ f.visitor.result.json_values = without.json_values
                   /\ i <= f.idx =>
                        /\ f.visitor.result.display_values = healed.display_values
                        /\ f.visitor.result.display_values[i]
                             = Entry(f.event.fields[i], f.integration)

C2_Witness ==
    \E f \in Frames :
        /\ Complete(f)
        /\ Len(f.event.fields) >= 2
        /\ ~f.event.fields[1].encOk
        /\ f.event.fields[2].encOk
        /\ f.event.fields[2].name # f.event.fields[1].name
        /\ DOMAIN f.visitor.result.json_values = {f.event.fields[2].name}
        /\ Len(f.visitor.result.display_values) = 2

\* C3 as stated: for a name visited more than once, json_values holds the
\* JSON value of the name's last occurrence, and every occurrence has its
\* entry in display_values.
C3_LastOccurrenceWins ==
    \A f \in Frames :
        \A i \in 1..f.idx :
            LET name == f.event.fields[i].name
                occ == Occurrences(Done(f), name)
            IN Cardinality(occ) > 1 =>
                 /\ name \in DOMAIN f.visitor.result.json_values
                 /\ f.visitor.result.json_values[name]
                      = JsonOf(f.event.fields[Max(occ)], f.integration)
                 /\ f.visitor.result.display_values[i]
                      = Entry(f.event.fields[i], f.integration)

\* C3 amended: for a name visited more than once, json_values holds only
\* the JSON value of the name's last occurrence whose encoding succeeded,
\* and no entry for the name if none succeeded; every occurrence has its
\* entry in display_values.
C3_LastEncodedOccurrenceWins ==
    \A f \in Frames :
        \A i \in 1..f.idx :
            LET name == f.event.fields[i].name
                occ == Occurrences(Done(f), name)
                enc == Encoded(Done(f), name)
            IN Cardinality(occ) > 1 =>
                 /\ IF enc = {}
                    THEN name \notin DOMAIN f.visitor.result.json_values
                    ELSE /\ name \in DOMAIN f.visitor.result.json_values
                         /\ f.visitor.result.json_values[name]
                              = JsonOf(f.event.fields[Max(enc)], f.integration)
                 /\ f.visitor.result.display_values[i]
                      = Entry(f.event.fields[i], f.integration)

C3_Witness ==
    \E f \in Frames :
        /\ Complete(f)
        /\ Len(f.event.fields) >= 2
        /\ f.event.fields[1].name = f.event.fields[2].name
        /\ f.event.fields[1].encOk
        /\ f.event.fields[2].encOk
        /\ JsonOf(f.event.fields[1], f.integration) # JsonOf(f.event.fields[2], f.integration)
        /\ f.visitor.result.json_values[f.event.fields[2].name]
             = JsonOf(f.event.fields[2], f.integration)
        /\ Len(f.visitor.result.display_values) = 2

\* ------------------------------------------------- returned records
Returned(fn) == out # None /\ out[1].fn = fn

OutFields == out[1].event.fields

OutException == out[1].sentry_event[1].exception[1]

ExpectedMessage(fields, integration) ==
    Join([i \in 1..Len(fields) |-> Entry(fields[i], integration)], <<"\n">>)

Names(fields) == {fields[i].name : i \in 1..Len(fields)}

ExpectedData(fields, integration) ==
    [name \in {n \in Names(fields) : Encoded(fields, n) # {}} |->
        JsonOf(fields[Max(Encoded(fields, name))], integration)]

StrLogTargets(fields) ==
    {i \in Occurrences(fields, LogTargetName) : fields[i].kind = "str"}

\* C4 as stated: the exception type is "[<log_target>] log event" when a
\* field named log.target was present on the event, with the possibly
\* ansi-stripped value of such a field, and "[<source>] tracing event"
\* otherwise; there is one exception and its value is the joined display.
C4_TypeFromLogTargetField ==
    Returned("convert_tracing_event") =>
        /\ Len(out[1].sentry_event[1].exception) = 1
        /\ OutException.value = Some(ExpectedMessage(OutFields, out[1].integration))
        /\ IF Occurrences(OutFields, LogTargetName) # {}
           THEN \E i \in Occurrences(OutFields, LogTargetName) :
                    OutException.ty
                      = <<"[">> \o Rendered(OutFields[i], out[1].integration) \o LogEventSuffix
           ELSE OutException.ty = <<"[">> \o out[1].event.target \o TracingEventSuffix

\* C4 amended: the exception type is "[<log_target>] log event" when a
\* string field named log.target was present, with the value of the last
\* such field (passed through the stripper when strip_ansi_escapes is
\* true), and "[<source>] tracing event" otherwise, also when log.target
\* was present only as a field of another kind; there is one exception
\* and its value is the joined display.
C4_TypeFromStringLogTarget ==
    Returned("convert_tracing_event") =>
        /\ Len(out[1].sentry_event[1].exception) = 1
        /\ OutException.value = Some(ExpectedMessage(OutFields, out[1].integration))
        /\ IF StrLogTargets(OutFields) # {}
           THEN OutException.ty
                  = <<"[">> \o Rendered(OutFields[Max(StrLogTargets(OutFields))],
                                        out[1].integration)
                    \o LogEventSuffix
           ELSE OutException.ty = <<"[">> \o out[1].event.target \o TracingEventSuffix

C4_Witness ==
    /\ Returned("convert_tracing_event")
    /\ Len(OutFields) >= 2
    /\ Cardinality(StrLogTargets(OutFields)) >= 1
    /\ OutFields[1].name = LogTargetName
    /\ OutFields[1].kind # "str"
    /\ out[1].integration.strip_ansi_escapes
    /\ OutException.ty = <<"[", "x", "y">> \o LogEventSuffix

\* C5 as stated: once the log_target of a visitor holds a value, no later
\* step of the same visitation changes it.
C5_LogTargetSetOnce ==
    [][\A d \in 1..Len(stack) :
          (d <= Len(stack') /\ stack[d].visitor.result.log_target # None) =>
              stack'[d].visitor.result.log_target = stack[d].visitor.result.log_target]_vars

\* C5 amended: log_target is unset until a string field named log.target is
\* visited; every such field sets it to its value (the stripper's output
\* when strip_ansi_escapes is true), so it holds the value of the last one
\* visited; fields of other names or other kinds never change it.
C5_LogTargetIsLastStringLogTarget ==
    \A f \in Frames :
        LET seen == StrLogTargets(Entered(f)) IN
        f.visitor.result.log_target
          = IF seen = {} THEN None
            ELSE Some(Rendered(f.event.fields[Max(seen)], f.integration))

C5_Witness ==
    \E f \in Frames :
        /\ Complete(f)
        /\ Len(f.event.fields) >= 2
        /\ f.event.fields[1].name = LogTargetName
        /\ f.event.fields[1].kind = "str"
        /\ f.event.fields[2].name = LogTargetName
        /\ f.event.fields[2].kind # "str"
        /\ f.integration.strip_ansi_escapes
        /\ f.visitor.result.log_target = Some(Strip(f.event.fields[1].text))

\* C6: convert_tracing_event yields no stack trace when attach_stacktraces
\* is false, whatever current_stacktrace() would return, and does not call
\* it; when attach_stacktraces is true the stack trace is exactly what
\* current_stacktrace() returns, none included.
C6_StacktraceOnlyWhenConfigured ==
    Returned("convert_tracing_event") =>
        IF out[1].integration.attach_stacktraces
        THEN OutException.stacktrace = out[1].capture /\ out[1].consulted
        ELSE OutException.stacktrace = None /\ ~out[1].consulted

C6_Witness ==
    /\ Returned("convert_tracing_event")
    /\ ~out[1].integration.attach_stacktraces
    /\ out[1].capture # None
    /\ OutException.stacktrace = None

\* The number of string, error and debug fields among fields.
StringFieldCount(fields) ==
    Cardinality({i \in 1..Len(fields) : fields[i].kind \in StringKinds})

\* C7 as stated: every string, error and debug field has the same string
\* as its display value and its JSON value: the input when
\* strip_ansi_escapes is false, the stripper's output, free of CSI
\* sequences, when it is true.
C7_StrippedValuesHaveNoCsi ==
    \A f \in Frames :
        \A i \in 1..f.idx :
            LET field == f.event.fields[i]
                value == SubSeq(f.visitor.result.display_values[i], Len(field.name) + 2,
                                Len(f.visitor.result.display_values[i]))
            IN field.kind \in StringKinds =>
                /\ f.integration.strip_ansi_escapes =>
                      /\ value = strip_ansi_codes_from_string(field.text, field.stripOk)
                      /\ ~HasCsi(value)
                /\ ~f.integration.strip_ansi_escapes => value = field.text
                /\ i = Max(Occurrences(Done(f), field.name)) /\ field.encOk =>
                      f.visitor.result.json_values[field.name] = JStr(value)

\* C7 amended: every string, error and debug field has the same string as
\* its display value and its JSON value: the input when strip_ansi_escapes
\* is false, and the output of strip_ansi_codes_from_string when it is
\* true, which is the stripped text, free of CSI sequences, when the strip
\* succeeds and the unchanged input when it fails; integer and boolean
\* fields are never passed through the stripper.
C7_StringValuesFollowStripper ==
    \A f \in Frames :
        /\ f.visitor.strip_calls
             = IF f.integration.strip_ansi_escapes THEN StringFieldCount(Entered(f)) ELSE 0
        /\ \A i \in 1..f.idx :
            LET field == f.event.fields[i]
                value == SubSeq(f.visitor.result.display_values[i], Len(field.name) + 2,
                                Len(f.visitor.result.display_values[i]))
            IN field.kind \in StringKinds =>
                /\ f.integration.strip_ansi_escapes /\ field.stripOk =>
                      value = Strip(field.text) /\ ~HasCsi(value)
                /\ f.integration.strip_ansi_escapes /\ ~field.stripOk => value = field.text
                /\ ~f.integration.strip_ansi_escapes => value = field.text
                /\ i = Max(Occurrences(Done(f), field.name)) /\ field.encOk =>
                      f.visitor.result.json_values[field.name] = JStr(value)

C7_Witness ==
    \E f \in Frames :
        /\ Complete(f)
        /\ Len(f.event.fields) >= 2
        /\ f.integration.strip_ansi_escapes
        /\ f.event.fields[1].kind \in {"i64", "bool"}
        /\ f.event.fields[2].kind = "error"
        /\ f.event.fields[2].stripOk
        /\ HasCsi(f.event.fields[2].text)
        /\ f.visitor.result.json_values[f.event.fields[2].name] = JStr(<<"d", "b">>)
        /\ f.visitor.result.display_values[2] = f.event.fields[2].name \o <<"=", "d", "b">>
        /\ f.visitor.strip_calls = 1

SentryLevels == {"Error", "Warning", "Info", "Debug"}

LevelTable ==
    [l \in TracingLevels |->
        IF l = "ERROR" THEN "Error"
        ELSE IF l = "WARN" THEN "Warning"
        ELSE IF l = "INFO" THEN "Info"
        ELSE "Debug"]

\* C8: breadcrumb_from_event returns a breadcrumb of type "log" whose level
\* is the mapped event level, whose category is the event's target, whose
\* message is the display entries of the event's fields joined with
\* newline and whose data is the encoded values by name; with no field the
\* message and the data are empty.
C8_BreadcrumbShape ==
    Returned("breadcrumb_from_event") =>
        LET b == out[1].breadcrumb[1] IN
        /\ b.ty = "log"
        /\ b.level = LevelTable[out[1].event.level]
        /\ b.category = Some(out[1].event.target)
        /\ b.message = Some(ExpectedMessage(OutFields, out[1].integration))
        /\ b.data = ExpectedData(OutFields, out[1].integration)
        /\ OutFields = <<>> => b.message = Some(<<>>) /\ b.data = EmptyMap

C8_Witness ==
    /\ Returned("breadcrumb_from_event")
    /\ Len(OutFields) >= 2
    /\ OutFields[1].name # OutFields[2].name
    /\ OutFields[1].encOk
    /\ OutFields[2].encOk
    /\ Cardinality(DOMAIN out[1].breadcrumb[1].data) = 2
    /\ "\n" \in {out[1].breadcrumb[1].message[1][i] :
                    i \in 1..Len(out[1].breadcrumb[1].message[1])}

OutLevel ==
    IF out[1].fn = "breadcrumb_from_event"
    THEN out[1].breadcrumb[1].level
    ELSE out[1].sentry_event[1].level

\* C9: convert_tracing_level maps ERROR to Error, WARN to Warning, INFO to
\* Info and both DEBUG and TRACE to Debug, and every record returned by
\* either assembler has the mapped level of its event.
C9_LevelMapping ==
    out # None =>
        /\ OutLevel \in SentryLevels
        /\ OutLevel = LevelTable[out[1].event.level]

C9_Witness ==
    /\ Returned("convert_tracing_event")
    /\ out[1].event.level = "TRACE"
    /\ OutLevel = "Debug"

ExpectedRecord(o) ==
    IF o.fn = "breadcrumb_from_event"
    THEN Breadcrumb(o.event, VisitAlone(o.event.fields, o.integration))
    ELSE SentryEvent(o.event, VisitAlone(o.event.fields, o.integration),
                     o.integration, o.capture)

OutRecord ==
    IF out[1].fn = "breadcrumb_from_event"
    THEN out[1].breadcrumb[1]
    ELSE out[1].sentry_event[1]

====
